---------------------------- MODULE Spec2Model ----------------------------
(***************************************************************************)
(* LookupNonprofits (src/__init__.py): an HTTP-triggered function that     *)
(* downloads a spreadsheet from blob storage, looks every organisation up  *)
(* in a local-search service, writes the rows to a CSV file and uploads    *)
(* that file to the same container.                                        *)
(*                                                                         *)
(* One invocation of main() is a process that walks through the           *)
(* statements of main(); the blobs and the two files in the temporary     *)
(* directory are shared by all invocations on a host, because their paths  *)
(* are fixed (tempfile.gettempdir() joined with a fixed name).             *)
(***************************************************************************)
EXTENDS Integers, Sequences, FiniteSets, TLC

(***************************************************************************)
(* Bounds of the model.                                                    *)
(***************************************************************************)
\* data rows of a sheet processed by a single invocation
MaxRows == 3
\* data rows of a sheet processed by two overlapping invocations
MaxConcRows == 2

(***************************************************************************)
(* Program constants.                                                      *)
(***************************************************************************)
\* `if row_count >= 200: break`
RowCap == 200
\* `response.status_code != 200`
HTTP_OK == 200
\* status_code=200 of the success response
StatusSucceeded == 200
\* status_code=500 of the error response
StatusFailed == 500
\* `city = row[2]` reads the third cell of the row
CityColumn == 3
\* `org_name = row[0]` reads the first cell of the row
OrgColumn == 1
\* `ws.iter_rows(min_row=2, ...)`
min_row == 2

Invocations == {"r1", "r2"}

\* Python's None.  No cell of the modelled sheets holds this text.
None == "<None>"

header == <<"Organisation", "Phone", "Website">>
output_filename == "NonprofitLookupResults.csv"

(***************************************************************************)
(* JSON values, as response.json() returns them.                           *)
(***************************************************************************)
JNull == [t |-> "null"]
JStr(s) == [t |-> "str", s |-> s]
JList(xs) == [t |-> "list", items |-> xs]
JObj(f) == [t |-> "obj", fields |-> f]

\* The outcome of an expression that raised.
Raised == [t |-> "raised"]

\* data[key] for a string key: only a dict holding the key yields a value
\* (KeyError for a dict without it, TypeError for anything else).
GetItem(v, key) ==
    IF v.t = "obj" /\ key \in DOMAIN v.fields THEN v.fields[key] ELSE Raised

\* v[0]: the first item of a non-empty list, or the first character of a
\* non-empty string, which is again a non-empty string (IndexError when
\* empty, KeyError for a dict, TypeError for None).
First(v) ==
    CASE v.t = "list" /\ Len(v.items) > 0 -> v.items[1]
      [] v.t = "str" /\ v.s # "" -> JStr("<first character>")
      [] OTHER -> Raised

\* Python truthiness of a JSON value (`if resources:`).
Truthy(v) ==
    CASE v.t = "null" -> FALSE
      [] v.t = "str" -> v.s # ""
      [] v.t = "list" -> Len(v.items) > 0
      [] v.t = "obj" -> DOMAIN v.fields # {}
      [] OTHER -> FALSE

\* A JSON value as the Python object stored in the row.
PyValue(v) ==
    CASE v.t = "str" -> v.s
      [] v.t = "null" -> None
      [] OTHER -> "<object>"

\* result.get(key, ""): only a dict has .get (AttributeError otherwise).
DictGet(v, key) ==
    IF v.t # "obj" THEN Raised
    ELSE IF key \in DOMAIN v.fields THEN v.fields[key] ELSE JStr("")

Empty == [phone |-> "", website |-> ""]

\* Lines 73-85: phone and website start empty; the walk through the JSON is
\* inside try/except, and phone is assigned before website is read.
ExtractContact(data) ==
    LET sets == GetItem(data, "resourceSets")
        set0 == IF sets = Raised THEN Raised ELSE First(sets)
        resources == IF set0 = Raised THEN Raised ELSE GetItem(set0, "resources")
    IN  IF resources = Raised THEN Empty
        ELSE IF ~Truthy(resources) THEN Empty
        ELSE LET result == First(resources)
                 p == IF result = Raised THEN Raised ELSE DictGet(result, "PhoneNumber")
                 w == IF result = Raised THEN Raised ELSE DictGet(result, "Website")
             IN  [phone |-> IF p = Raised THEN "" ELSE PyValue(p),
                  website |-> IF p = Raised \/ w = Raised THEN "" ELSE PyValue(w)]


(***************************************************************************)
(* What requests.get(BING_SEARCH_URL, params) can come back with.          *)
(***************************************************************************)
NotJson == [t |-> "notjson"]

\* requests.get raised (connection refused, DNS failure, timeout, ...)
NetworkError == [kind |-> "raise"]
Http(status, body) == [kind |-> "http", status_code |-> status, body |-> body]

Entry(f) == JObj([resourceSets |-> JList(<<JObj([resources |-> JList(<<f>>)])>>)])
Container(r) == JObj([resourceSets |-> JList(<<JObj([resources |-> r])>>)])

\* 200 responses with no usable result container
AbsentBodies ==
    { JList(<<>>), JNull, JObj(<<>>),
      JObj([resourceSets |-> JNull]),
      JObj([resourceSets |-> JList(<<>>)]),
      JObj([resourceSets |-> JList(<<JObj(<<>>)>>)]),
      JObj([resourceSets |-> JList(<<JNull>>)]) }
MalformedBodies ==
    { Container(JNull), Container(JStr("abc")), Container(JStr("")),
      Container(JObj([PhoneNumber |-> JStr("+49 1")])),
      Container(JObj(<<>>)),
      Container(JList(<<JNull>>)),
      Container(JList(<<JStr("+49 1")>>)),
      Container(JList(<<JList(<<>>)>>)) }
EmptyBodies == { Container(JList(<<>>)) }
\* 200 responses with a first result entry
FoundBodies ==
    { Entry(JObj([PhoneNumber |-> JStr("+49 1"), Website |-> JStr("hh.org")])),
      Entry(JObj([PhoneNumber |-> JStr("+49 1")])),
      Entry(JObj([Website |-> JStr("hh.org")])),
      Entry(JObj(<<>>)),
      Entry(JObj([PhoneNumber |-> JNull, Website |-> JStr("hh.org")])),
      Container(JList(<<JObj([Website |-> JStr("hh.org")]),
                        JObj([PhoneNumber |-> JStr("+49 2"), Website |-> JStr("fb.org")])>>)) }
JsonBodies == AbsentBodies \cup MalformedBodies \cup EmptyBodies \cup FoundBodies

Responses ==
    {NetworkError}
      \cup {Http(s, b) : s \in {404, 500}, b \in {NotJson, Container(JList(<<>>))}}
      \cup {Http(HTTP_OK, b) : b \in JsonBodies \cup {NotJson}}


(***************************************************************************)
(* The input spreadsheet.  A sheet is the sequence of its rows, the header *)
(* row first; a row is the tuple of its cell values (values_only=True).    *)
(***************************************************************************)
Names == {None, "", "Helping Hands", "Food Bank"}
SheetHeader == <<"Name", "Typ", "Ort">>
Row(name) == <<name, "x", "Berlin">>
\* a row of a sheet that has only two columns
NarrowRow(name) == <<name, "x">>

RECURSIVE SeqsUpTo(_, _)
SeqsUpTo(S, n) ==
    IF n = 0 THEN {<<>>}
    ELSE LET shorter == SeqsUpTo(S, n - 1)
         IN  shorter \cup {Append(q, x) : q \in {r \in shorter : Len(r) = n - 1}, x \in S}

Sheets(n) ==
    {<<>>}
      \cup {<<SheetHeader>> \o d : d \in SeqsUpTo({Row(x) : x \in Names}, n)}
      \cup {<<NarrowRow("Name"), NarrowRow(x)>> : x \in Names}

\* Sheets with about RowCap data rows: the names alternate, and every
\* `gap`-th data row has an empty (None) name cell when gap > 0.
LongRow(i, gap) ==
    IF gap > 0 /\ i % gap = 0 THEN Row(None)
    ELSE IF i % 2 = 1 THEN Row("Helping Hands") ELSE Row("Food Bank")
LongSheet(n, gap) == <<SheetHeader>> \o [i \in 1..n |-> LongRow(i, gap)]
LongSheets ==
    {LongSheet(n, gap) : n \in {RowCap - 1, RowCap, RowCap + 1, RowCap + 50},
                         gap \in {0, 5}}

\* The bytes of a blob or file: a workbook, something that is no workbook,
\* or nothing at all.
Workbook(rows) == [fmt |-> "xlsx", rows |-> rows]
Garbage == [fmt |-> "garbage"]
NoBytes == [fmt |-> "empty"]

ShortBlobs == {Garbage} \cup {Workbook(sh) : sh \in Sheets(MaxRows)}
ConcBlobs == {Garbage} \cup {Workbook(sh) : sh \in Sheets(MaxConcRows)}
LongBlobs == {Workbook(sh) : sh \in LongSheets}

\* The answers of the search service while two invocations overlap.
ConcResponses ==
    { NetworkError, Http(500, NotJson),
      Http(HTTP_OK, Entry(JObj([PhoneNumber |-> JStr("+49 1"), Website |-> JStr("hh.org")]))) }

\* The answers of the search service in the runs over the long sheets.
LongServices ==
    { {Http(HTTP_OK, Entry(JObj([PhoneNumber |-> JStr("+49 1"), Website |-> JStr("hh.org")])))},
      {Http(500, NotJson)} }

(***************************************************************************)
(* Files in the temporary directory.                                       *)
(***************************************************************************)
NoFile == [exists |-> FALSE]
File(content) == [exists |-> TRUE, content |-> content]

\* write() from offset 0 into a file opened without truncation of what
\* another writer put there meanwhile: data replaces the first Len(data)
\* units, what lies beyond stays.  (The unit is the CSV line.)
Overlay(old, data) == data \o SubSeq(old, Len(data) + 1, Len(old))

\* csv.writer: None is written as the empty field, text as it is.
CsvField(v) == IF v = None THEN "" ELSE v
CsvLine(row) == [i \in 1..Len(row) |-> CsvField(row[i])]
\* writer.writerows(results)
Serialize(table) == [i \in 1..Len(table) |-> CsvLine(table[i])]


(***************************************************************************)
(* State.                                                                  *)
(***************************************************************************)
VARIABLES
    in_blob,      \* the blob EXCEL_FILENAME of the container
    out_blob,     \* the blob NonprofitLookupResults.csv of the container
    temp_excel,   \* the file at temp_excel_path
    temp_csv,     \* the file at temp_csv_path
    service,      \* the responses the search service gives in this run
    pc,           \* where each invocation of main() stands
    downloaded,   \* download_stream.readall() of each invocation
    parsed,       \* the bytes load_workbook read for each invocation
    ws,           \* the rows of wb.active
    cursor,       \* the row ws.iter_rows is at
    results,      \* the list `results`
    row_count,    \* the counter `row_count`
    calls,        \* the queries sent with requests.get, in order
    sent,         \* what upload_blob sent, in order
    uploaders,    \* the invocations whose upload completed, in order
    response,     \* the local `response` of the lookup under way
    returned      \* the HttpResponse main() returned

vars == <<in_blob, out_blob, temp_excel, temp_csv, service, pc, downloaded,
          parsed, ws, cursor, results, row_count, calls, sent, uploaders,
          response, returned>>

shared == <<in_blob, service>>
locals == <<downloaded, parsed, ws, cursor, results, row_count, calls, response>>

\* main() has not returned
NoResponse == [returned |-> FALSE]
\* `response` is not bound (or no longer read)
NoLookup == [kind |-> "unbound"]
\* lines 102-106
SuccessResponse ==
    [returned |-> TRUE, status_code |-> StatusSucceeded,
     message |-> "Lookup completed successfully",
     outputFile |-> output_filename]
\* an error response that hides the description of the failure
ErrorResponse_Generic(e) ==
    [returned |-> TRUE, status_code |-> StatusFailed, error |-> "Internal Server Error"]

\* lines 109-113: {"error": str(e)}
ErrorResponse(e) == [returned |-> TRUE, status_code |-> StatusFailed, error |-> e]

\* the textual descriptions of the exceptions
DownloadError == "StorageError: download_blob failed"
UploadError == "StorageError: upload_blob failed"
ParseError == "BadZipFile: File is not a zip file"
IndexError == "IndexError: tuple index out of range"
ConnectionError == "ConnectionError: search service unreachable"
JSONDecodeError == "JSONDecodeError: Expecting value"

InitLocals ==
    /\ downloaded = [p \in Invocations |-> NoBytes]
    /\ parsed = [p \in Invocations |-> NoBytes]
    /\ ws = [p \in Invocations |-> <<>>]
    /\ cursor = [p \in Invocations |-> 0]
    /\ results = [p \in Invocations |-> <<>>]
    /\ row_count = [p \in Invocations |-> 0]
    /\ calls = [p \in Invocations |-> <<>>]
    /\ sent = [p \in Invocations |-> <<>>]
    /\ uploaders = <<>>
    /\ response = [p \in Invocations |-> NoLookup]
    /\ returned = [p \in Invocations |-> NoResponse]
    /\ out_blob = NoFile
    /\ temp_excel = NoFile
    /\ temp_csv = NoFile

\* one request, a short sheet, any answer of the search service
InitSingle ==
    /\ in_blob \in ShortBlobs
    /\ service = Responses
    /\ pc = [p \in Invocations |-> IF p = "r1" THEN "Idle" ELSE "NoRequest"]

\* two requests whose invocations overlap on one host
InitConcurrent ==
    /\ in_blob \in ConcBlobs
    /\ service = ConcResponses
    /\ pc = [p \in Invocations |-> "Idle"]

\* one request, a sheet of about RowCap rows
InitLong ==
    /\ in_blob \in LongBlobs
    /\ service \in LongServices
    /\ pc = [p \in Invocations |-> IF p = "r1" THEN "Idle" ELSE "NoRequest"]

Init == InitLocals /\ (InitSingle \/ InitConcurrent \/ InitLong)

(***************************************************************************)
(* main(): lines 24-113.                                                   *)
(***************************************************************************)
\* The except clause of lines 107-113: the exception becomes the 500
\* response, whatever statement raised it.
Fail(p, e) ==
    /\ pc' = [pc EXCEPT ![p] = "Failed"]
    /\ returned' = [returned EXCEPT ![p] = ErrorResponse(e)]

\* Lines 29-34: the clients are built and temp_excel_path is opened "wb",
\* which creates the file or truncates it.
OpenExcel(p) ==
    /\ pc[p] = "Idle"
    /\ temp_excel' = File(NoBytes)
    /\ pc' = [pc EXCEPT ![p] = "Fetching"]
    /\ UNCHANGED <<shared, locals, out_blob, temp_csv, sent, uploaders, returned>>

\* Lines 35-36: the blob is downloaded and written to the file, which the
\* end of the with block closes; or download_blob raises.
Download(p) ==
    /\ pc[p] = "Fetching"
    /\ \/ /\ downloaded' = [downloaded EXCEPT ![p] = in_blob]
          /\ temp_excel' = File(in_blob)
          /\ pc' = [pc EXCEPT ![p] = "Parsing"]
          /\ UNCHANGED returned
       \/ /\ Fail(p, DownloadError)
          /\ UNCHANGED <<downloaded, temp_excel>>
    /\ UNCHANGED <<shared, parsed, ws, cursor, results, row_count, calls,
                   response, out_blob, temp_csv, sent, uploaders>>

\* Lines 39-48: load_workbook reads the file at temp_excel_path; results
\* starts with the header.
LoadWorkbook(p) ==
    /\ pc[p] = "Parsing"
    /\ parsed' = [parsed EXCEPT ![p] = temp_excel.content]
    /\ IF temp_excel.content.fmt = "xlsx"
       THEN /\ ws' = [ws EXCEPT ![p] = temp_excel.content.rows]
            /\ cursor' = [cursor EXCEPT ![p] = min_row]
            /\ results' = [results EXCEPT ![p] = <<header>>]
            /\ row_count' = [row_count EXCEPT ![p] = 0]
            /\ pc' = [pc EXCEPT ![p] = "Enriching"]
            /\ UNCHANGED returned
       ELSE /\ Fail(p, ParseError)
            /\ UNCHANGED <<ws, cursor, results, row_count>>
    /\ UNCHANGED <<shared, downloaded, calls, response, out_blob, temp_excel,
                   temp_csv, sent, uploaders>>

\* the cap compared off by one
CapReached_OffByOne(n) == n > RowCap

\* line 50
CapReached(n) == n >= RowCap
\* line 54
IsSkipped(org_name) == org_name = None
\* line 58
Query(org_name, city) == <<org_name, city>>

\* Lines 49-64: one turn of the loop up to the moment requests.get is
\* called.  The previous turn's `response` is read no more.
NextRow(p) ==
    /\ pc[p] = "Enriching"
    /\ response' = [response EXCEPT ![p] = NoLookup]
    /\ IF cursor[p] > Len(ws[p]) \/ CapReached(row_count[p])
       THEN /\ pc' = [pc EXCEPT ![p] = "Serializing"]
            /\ UNCHANGED <<cursor, calls, returned>>
       ELSE LET row == ws[p][cursor[p]]
            IN  IF Len(row) < CityColumn
                THEN /\ Fail(p, IndexError)
                     /\ UNCHANGED <<cursor, calls>>
                ELSE IF IsSkipped(row[OrgColumn])
                THEN /\ cursor' = [cursor EXCEPT ![p] = @ + 1]
                     /\ UNCHANGED <<pc, calls, returned>>
                ELSE /\ calls' = [calls EXCEPT
                            ![p] = Append(@, Query(row[OrgColumn], row[CityColumn]))]
                     /\ pc' = [pc EXCEPT ![p] = "Awaiting"]
                     /\ UNCHANGED <<cursor, returned>>
    /\ UNCHANGED <<shared, downloaded, parsed, ws, results, row_count,
                   out_blob, temp_excel, temp_csv, sent, uploaders>>

\* the lookup without the check of the status code
LookupOutcome_NoStatusCheck(resp) ==
    IF resp.kind = "raise"
    THEN [raised |-> TRUE, error |-> ConnectionError]
    ELSE IF resp.body = NotJson
    THEN [raised |-> TRUE, error |-> JSONDecodeError]
    ELSE [raised |-> FALSE, contact |-> ExtractContact(resp.body)]

\* Lines 64-85: what the lookup makes of the answer: an exception that
\* leaves the loop, or the phone and website of the row.
LookupOutcome(resp) ==
    IF resp.kind = "raise"
    THEN [raised |-> TRUE, error |-> ConnectionError]
    ELSE IF resp.status_code # HTTP_OK
    THEN [raised |-> FALSE, contact |-> Empty]
    ELSE IF resp.body = NotJson
    THEN [raised |-> TRUE, error |-> JSONDecodeError]
    ELSE [raised |-> FALSE, contact |-> ExtractContact(resp.body)]

\* line 87
OutputRow(org_name, contact) == <<org_name, contact.phone, contact.website>>

\* Lines 64-88: requests.get returns or raises, and the row is appended.
Respond(p) ==
    /\ pc[p] = "Awaiting"
    /\ \E resp \in service :
         LET out == LookupOutcome(resp)
             org_name == ws[p][cursor[p]][OrgColumn]
         IN  IF out.raised
             THEN /\ Fail(p, out.error)
                  /\ response' = [response EXCEPT
                         ![p] = IF resp.kind = "raise" THEN @ ELSE resp]
                  /\ UNCHANGED <<results, row_count, cursor>>
             ELSE /\ results' = [results EXCEPT
                          ![p] = Append(@, OutputRow(org_name, out.contact))]
                  /\ row_count' = [row_count EXCEPT ![p] = @ + 1]
                  /\ cursor' = [cursor EXCEPT ![p] = @ + 1]
                  /\ pc' = [pc EXCEPT ![p] = "Enriching"]
                  /\ response' = [response EXCEPT ![p] = resp]
                  /\ UNCHANGED returned
    /\ UNCHANGED <<shared, downloaded, parsed, ws, calls, out_blob,
                   temp_excel, temp_csv, sent, uploaders>>

\* Lines 91-93: temp_csv_path is opened "w", which creates the file or
\* truncates it.
OpenCsv(p) ==
    /\ pc[p] = "Serializing"
    /\ temp_csv' = File(<<>>)
    /\ pc' = [pc EXCEPT ![p] = "Writing"]
    /\ UNCHANGED <<shared, locals, out_blob, temp_excel, sent, uploaders, returned>>

\* Lines 94-95: the rows are written and the end of the with block flushes
\* and closes the file.
WriteCsv(p) ==
    /\ pc[p] = "Writing"
    /\ temp_csv' = File(Overlay(temp_csv.content, Serialize(results[p])))
    /\ pc' = [pc EXCEPT ![p] = "Uploading"]
    /\ UNCHANGED <<shared, locals, out_blob, temp_excel, sent, uploaders, returned>>

\* the upload moved into a finally clause: it also runs after a failure
UploadInFinally(p) ==
    /\ \/ /\ pc[p] = "Uploading"
          /\ pc' = [pc EXCEPT ![p] = "Succeeded"]
          /\ returned' = [returned EXCEPT ![p] = SuccessResponse]
       \/ /\ pc[p] = "Failed"
          /\ sent[p] = <<>>
          /\ temp_csv.exists
          /\ UNCHANGED <<pc, returned>>
    /\ out_blob' = File(temp_csv.content)
    /\ sent' = [sent EXCEPT ![p] = Append(@, temp_csv.content)]
    /\ uploaders' = Append(uploaders, p)
    /\ UNCHANGED <<shared, locals, temp_excel, temp_csv>>

\* Lines 98-106: the file at temp_csv_path is read and uploaded with
\* overwrite=True, and the 200 response is returned; or upload_blob raises.
Upload(p) ==
    /\ pc[p] = "Uploading"
    /\ \/ /\ out_blob' = File(temp_csv.content)
          /\ sent' = [sent EXCEPT ![p] = Append(@, temp_csv.content)]
          /\ uploaders' = Append(uploaders, p)
          /\ pc' = [pc EXCEPT ![p] = "Succeeded"]
          /\ returned' = [returned EXCEPT ![p] = SuccessResponse]
       \/ /\ Fail(p, UploadError)
          /\ UNCHANGED <<out_blob, sent, uploaders>>
    /\ UNCHANGED <<shared, locals, temp_excel, temp_csv>>

Next ==
    \E p \in Invocations :
        \/ OpenExcel(p)
        \/ Download(p)
        \/ LoadWorkbook(p)
        \/ NextRow(p)
        \/ Respond(p)
        \/ OpenCsv(p)
        \/ WriteCsv(p)
        \/ Upload(p)

Spec == Init /\ [][Next]_vars


(***************************************************************************)
(* Vocabulary of the properties.                                           *)
(***************************************************************************)
Min(a, b) == IF a <= b THEN a ELSE b
Last(q) == q[Len(q)]

\* the rows of a sheet after its header row
DataRows(sheet) == IF sheet = <<>> THEN <<>> ELSE Tail(sheet)

HasName(row) == row[1] # None
HasNonEmptyName(row) == row[1] # None /\ row[1] # ""

\* the rows the loop looks up: those whose name cell holds a value
CandidateRows(sheet) == SelectSeq(DataRows(sheet), HasName)
\* the rows whose name cell holds a non-empty value
QualifyingRows(sheet) == SelectSeq(DataRows(sheet), HasNonEmptyName)

\* the rows appended to results after the header
RowsAppended(p) == IF results[p] = <<>> THEN 0 ELSE Len(results[p]) - 1

\* a lookup that came back with a non-200 status, or with 200 and a result
\* container that is absent, malformed or empty
Degraded(resp) ==
    /\ resp.kind = "http"
    /\ \/ resp.status_code # 200
       \/ resp.body \in AbsentBodies \cup MalformedBodies \cup EmptyBodies

Terminal(p) == pc[p] \in {"Succeeded", "Failed"}

\* the descriptions of the failures that can happen at a stage
DescriptionsAt(stage) ==
    CASE stage = "Fetching" -> {DownloadError}
      [] stage = "Parsing" -> {ParseError}
      [] stage = "Enriching" -> {IndexError}
      [] stage = "Awaiting" -> {ConnectionError, JSONDecodeError}
      [] stage = "Uploading" -> {UploadError}
      [] OTHER -> {}

(***************************************************************************)
(* C1: no failure of a per-candidate lookup ever moves the run to Failed:  *)
(* a run that waits for the answer of a lookup does not fail in that step, *)
(* whatever the answer is.                                                 *)
(***************************************************************************)
C1_LookupFailureNeverFailsRun ==
    [][\A p \in Invocations : pc[p] = "Awaiting" => pc'[p] # "Failed"]_vars

(***************************************************************************)
(* C2: when the lookup of a candidate comes back with a non-200 status, or *)
(* with 200 and a result container that is absent, malformed or empty, the *)
(* row appended is exactly [name, "", ""], the earlier rows are unchanged  *)
(* and the loop goes on to the next row.                                   *)
(***************************************************************************)
C2_DegradedLookupGivesEmptyRow ==
    [][\A p \in Invocations :
         (pc[p] = "Awaiting" /\ pc'[p] # "Awaiting" /\ Degraded(response'[p]))
            => /\ results'[p] = Append(results[p], <<ws[p][cursor[p]][1], "", "">>)
               /\ pc'[p] = "Enriching"
               /\ cursor'[p] = cursor[p] + 1]_vars

\* a found row followed by the empty row of a lookup whose container was
\* malformed
C2_Witness ==
    \E p \in Invocations :
        /\ pc[p] = "Enriching"
        /\ response[p] = Http(200, Container(JStr("abc")))
        /\ results[p] = <<header, <<"Helping Hands", "+49 1", "hh.org">>,
                          <<"Food Bank", "", "">> >>

(***************************************************************************)
(* C3: a successful run holds, after the header, exactly min(200, Q) rows, *)
(* Q the number of data rows with a non-empty name, and the i-th row       *)
(* carries the name of the i-th such row.                                  *)
(***************************************************************************)
C3_OneRowPerQualifyingRow ==
    \A p \in Invocations :
        pc[p] = "Succeeded" =>
            LET q == QualifyingRows(ws[p])
                n == Min(200, Len(q))
            IN  /\ RowsAppended(p) = n
                /\ \A i \in 1..n : results[p][i + 1][1] = q[i][1]

(***************************************************************************)
(* C4: a data row whose name cell is missing or the empty string produces  *)
(* no output row, triggers no lookup and does not raise the count compared *)
(* with the cap.                                                           *)
(***************************************************************************)
C4_EmptyNameRowsSkipped ==
    [][\A p \in Invocations :
         (/\ pc[p] = "Enriching"
          /\ cursor[p] <= Len(ws[p])
          /\ ws[p][cursor[p]][1] \in {None, ""})
            => /\ calls'[p] = calls[p]
               /\ results'[p] = results[p]
               /\ row_count'[p] = row_count[p]
               /\ pc'[p] # "Awaiting"]_vars

(***************************************************************************)
(* C5: a run that failed before the upload has written nothing to the      *)
(* output blob; every run writes the output blob at most once, and only    *)
(* when its loop is over and every candidate (up to the cap) has its row.  *)
(***************************************************************************)
C5_OutputWrittenOnceAfterLoop ==
    /\ \A p \in Invocations :
        /\ Len(sent[p]) <= 1
        /\ pc[p] = "Failed" => sent[p] = <<>>
        /\ sent[p] # <<>> =>
              /\ pc[p] = "Succeeded"
              /\ cursor[p] > Len(ws[p]) \/ row_count[p] >= 200
              /\ RowsAppended(p) = Min(200, Len(CandidateRows(ws[p])))
    /\ (\A p \in Invocations : sent[p] = <<>>) => out_blob = NoFile

\* a run that failed in the loop, after a row was appended
C5_Witness ==
    \E p \in Invocations :
        /\ pc[p] = "Failed"
        /\ returned[p].error = ConnectionError
        /\ RowsAppended(p) = 2
        /\ out_blob = NoFile

(***************************************************************************)
(* C6: an invocation returns one response, when it ends: 200 with the      *)
(* success payload naming NonprofitLookupResults.csv exactly when its      *)
(* upload completed, otherwise 500 with the description of the failure; a  *)
(* failed upload gives the 500 response with the storage failure's text.   *)
(***************************************************************************)
C6_State ==
    \A p \in Invocations :
        /\ returned[p].returned <=> Terminal(p)
        /\ returned[p].returned =>
              /\ returned[p].status_code = 200 <=> Len(sent[p]) = 1
              /\ returned[p].status_code = 200 =>
                    returned[p] = [returned |-> TRUE, status_code |-> 200,
                                   message |-> "Lookup completed successfully",
                                   outputFile |-> "NonprofitLookupResults.csv"]
              /\ returned[p].status_code # 200 =>
                    /\ returned[p].status_code = 500
                    /\ DOMAIN returned[p] = {"returned", "status_code", "error"}

C6_Step ==
    \A p \in Invocations :
        /\ returned[p].returned => returned'[p] = returned[p]
        /\ (pc'[p] = "Failed" /\ pc[p] # "Failed") =>
              returned'[p].error \in DescriptionsAt(pc[p])

C6_OneResponsePerInvocation == []C6_State /\ [][C6_Step]_vars

\* the upload of a complete table failed
C6_Witness ==
    \E p \in Invocations :
        /\ pc[p] = "Failed"
        /\ returned[p] = [returned |-> TRUE, status_code |-> 500,
                          error |-> "StorageError: upload_blob failed"]
        /\ RowsAppended(p) = 2
        /\ temp_csv = File(Serialize(results[p]))

(***************************************************************************)
(* C7: when an invocation has returned its response, 200 or 500, neither   *)
(* temporary file is left.                                                 *)
(***************************************************************************)
C7_TempFilesDeleted ==
    \A p \in Invocations :
        returned[p].returned => ~temp_excel.exists /\ ~temp_csv.exists

(***************************************************************************)
(* C8: under every interleaving of two invocations, each parses the bytes  *)
(* it downloaded, each uploads the serialization of its own table, and the *)
(* output blob is the complete table of the last uploader.                 *)
(***************************************************************************)
C8_Step ==
    \A p \in Invocations :
        /\ (pc[p] = "Parsing" /\ pc'[p] # "Parsing") => parsed'[p] = downloaded[p]
        /\ (pc[p] = "Uploading" /\ pc'[p] = "Succeeded") =>
              /\ Last(sent'[p]) = Serialize(results[p])
              /\ out_blob' = File(Serialize(results[Last(uploaders')]))

C8_InvocationsShareOnlyBlobs == [][C8_Step]_vars

(***************************************************************************)
(* C9: once the output table exists its first row is the header, and so is *)
(* the first row of every output blob a run writes.                        *)
(***************************************************************************)
C9_HeaderFirst ==
    \A p \in Invocations :
        /\ results[p] # <<>> => results[p][1] = <<"Organisation", "Phone", "Website">>
        /\ \A i \in 1..Len(sent[p]) :
              /\ sent[p][i] # <<>>
              /\ sent[p][i][1] = <<"Organisation", "Phone", "Website">>

=============================================================================
